---------------------------- MODULE Spec2Model ----------------------------
(***************************************************************************)
(* Fletcher-4 checksummer (package fletcher4, checksummer.go).             *)
(*                                                                         *)
(* A digest is four uint64 running sums.  TLC's integers are 32 bits wide, *)
(* so a uint64 is held as four 16-bit limbs, least significant first, and  *)
(* a uint32 as two; the arithmetic below is Go's unsigned arithmetic on    *)
(* that representation.  A byte slice is a sequence of values in 0..255.   *)
(***************************************************************************)
EXTENDS Integers, Sequences, FiniteSets, TLC

\* ------------------------------------------------------------------------
\* Program constants
\* ------------------------------------------------------------------------

\* const Size = 32
Size == 32

\* const BlockSize = 4
BlockSize == 4

\* ------------------------------------------------------------------------
\* Machine integers
\* ------------------------------------------------------------------------

LimbBase == 256 * 256

\* The uint64 value 0.
Zero64 == <<0, 0, 0, 0>>

\* Variant of Add64: the sum stops at 2^64 - 1 where Add64 wraps.
Add64Saturating(x, y) ==
    LET s1 == x[1] + y[1]
        s2 == x[2] + y[2] + (s1 \div LimbBase)
        s3 == x[3] + y[3] + (s2 \div LimbBase)
        s4 == x[4] + y[4] + (s3 \div LimbBase)
    IN  IF s4 >= LimbBase
        THEN <<LimbBase - 1, LimbBase - 1, LimbBase - 1, LimbBase - 1>>
        ELSE <<s1 % LimbBase, s2 % LimbBase, s3 % LimbBase, s4 % LimbBase>>

\* x + y on uint64: the carry out of the top limb is dropped (mod 2^64).
Add64(x, y) ==
    LET s1 == x[1] + y[1]
        s2 == x[2] + y[2] + (s1 \div LimbBase)
        s3 == x[3] + y[3] + (s2 \div LimbBase)
        s4 == x[4] + y[4] + (s3 \div LimbBase)
    IN  <<s1 % LimbBase, s2 % LimbBase, s3 % LimbBase, s4 % LimbBase>>

\* Variant of Uint32: most significant byte first.
Uint32BigEndian(b) == <<b[4] + 256 * b[3], b[2] + 256 * b[1]>>

\* binary.LittleEndian.Uint32(b): b[0] | b[1]<<8 | b[2]<<16 | b[3]<<24.
Uint32(b) == <<b[1] + 256 * b[2], b[3] + 256 * b[4]>>

\* uint64(w) for a uint32 w: zero extension.
Widen(w) == <<w[1], w[2], 0, 0>>

\* Variant of PutUint64: most significant byte first.
PutUint64BigEndian(v) ==
    [i \in 1..8 |->
        LET limb == v[(10 - i) \div 2]
        IN  IF i % 2 = 1 THEN limb \div 256 ELSE limb % 256]

\* binary.LittleEndian.PutUint64(add, v): add[i] = byte(v >> (8*i)).
PutUint64(v) ==
    [i \in 1..8 |->
        LET limb == v[(i + 1) \div 2]
        IN  IF i % 2 = 1 THEN limb % 256 ELSE limb \div 256]

\* ------------------------------------------------------------------------
\* digest and its methods
\* ------------------------------------------------------------------------

\* Variant of ResetDigest: the last word is not cleared.
ResetKeepsLast(dg) == <<Zero64, Zero64, Zero64, dg[4]>>

\* (*digest).Reset: *d = [4]uint64{0, 0, 0, 0}
ResetDigest(dg) == <<Zero64, Zero64, Zero64, Zero64>>

\* New: d := new(digest); d.Reset()
New == ResetDigest(<<Zero64, Zero64, Zero64, Zero64>>)

\* Variant of blockStep: b += w where blockStep has b += a.
blockStepNoCascade(s, p, i) ==
    LET w == Widen(Uint32(SubSeq(p, i + 1, i + BlockSize)))
        a == Add64(s[1], w)
        b == Add64(s[2], w)
        c == Add64(s[3], b)
        d == Add64(s[4], c)
    IN  <<a, b, c, d>>

\* One pass of the loop body of update, for the block p[i : i+BlockSize]
\* (i counts from 0 as in the source): a += uint64(Uint32(block)); b += a;
\* c += b; d += c.
blockStep(s, p, i) ==
    LET a == Add64(s[1], Widen(Uint32(SubSeq(p, i + 1, i + BlockSize))))
        b == Add64(s[2], a)
        c == Add64(s[3], b)
        d == Add64(s[4], c)
    IN  <<a, b, c, d>>

\* for i := 0; i < len(p); i += BlockSize { ... }: the passes for
\* i, i + BlockSize, ... below n, in that order, run as a first half
\* followed by a second half.  TLC hands an operator its arguments
\* unevaluated, and would evaluate a pass only when the next one reads its
\* result, nesting as deep as there are passes; the test s # s reads the
\* state on entry, so that the first half is done before the second starts.
half(i, n) == i + BlockSize * (((n - i + BlockSize - 1) \div BlockSize) \div 2)

RECURSIVE updateLoop(_, _, _, _)
updateLoop(s, p, i, n) ==
    IF i >= n \/ s # s THEN s
    ELSE IF n - i <= BlockSize THEN blockStep(s, p, i)
    ELSE updateLoop(updateLoop(s, p, i, half(i, n)), p, half(i, n), n)

\* Variant of update: a trailing part of a block is dropped without a panic.
updatePads(dg, p) ==
    [panicked |-> FALSE,
     val |-> updateLoop(dg, p, 0, Len(p) - (Len(p) % BlockSize))]

\* update(dig, p): panics when len(p) is no multiple of BlockSize, and
\* otherwise returns the digest after the loop.
update(dg, p) ==
    IF Len(p) % BlockSize # 0
    THEN [panicked |-> TRUE, val |-> dg]
    ELSE [panicked |-> FALSE, val |-> updateLoop(dg, p, 0, Len(p))]

\* Variant of WriteDigest: update starts from a zero digest.
WriteFromZero(dg, p) ==
    LET r == update(New, p)
    IN  IF r.panicked
        THEN [panicked |-> TRUE, d |-> dg, n |-> 0, err |-> "none"]
        ELSE [panicked |-> FALSE, d |-> r.val, n |-> Len(p), err |-> "nil"]

\* Variant of WriteDigest: the whole leading blocks are taken before the
\* panic.
WritePartial(dg, p) ==
    LET r == update(dg, p)
    IN  IF r.panicked
        THEN [panicked |-> TRUE, n |-> 0, err |-> "none",
              d |-> updateLoop(dg, p, 0, Len(p) - (Len(p) % BlockSize))]
        ELSE [panicked |-> FALSE, d |-> r.val, n |-> Len(p), err |-> "nil"]

\* (*digest).Write: *d = update(*d, p); return len(p), nil.  The outcome is
\* the receiver after the call and what the caller gets: the pair (n, err),
\* or the panic raised in update before the assignment.
WriteDigest(dg, p) ==
    LET r == update(dg, p)
    IN  IF r.panicked
        THEN [panicked |-> TRUE, d |-> dg, n |-> 0, err |-> "none"]
        ELSE [panicked |-> FALSE, d |-> r.val, n |-> Len(p), err |-> "nil"]

\* (*digest).Sum: in with the four words appended, each by PutUint64.
SumDigest(dg, in) ==
    in \o PutUint64(dg[1]) \o PutUint64(dg[2]) \o PutUint64(dg[3]) \o PutUint64(dg[4])

\* (*digest).Sum64x4: the four words.
Sum64x4Digest(dg) == dg

\* ------------------------------------------------------------------------
\* Bounds and inputs
\* ------------------------------------------------------------------------

\* Words an accumulator is given between two Resets.
MaxHist == 3

\* Words in one Write of the two-accumulator workload.
MaxChunk == 2

\* Earlier digests in the buffer handed to Sum.
MaxPrior == 1

\* Words in one Write of the long workload, and the words its accumulator
\* is given between two Resets.
LongWords == 300
MaxLongHist == 602

\* The accumulators the callers hold.
Acc == {1, 2}

\* The inputs of the tests: TestChecksummer1's inp1, the two halves of
\* TestChecksummer2's inp1, that inp1 itself, and its inp2.
T1 == <<1, 2, 3, 4>>
T2 == <<5, 6, 7, 8>>
T3 == <<2, 4, 6, 8>>

Aligned == {<<>>, T1, T2, T3, T1 \o T2}

\* Lengths 1, 2, 3, and 5, 6, 7, 9 with one or two whole leading words.
Misaligned ==
    {<<9>>, <<9, 10>>, <<9, 10, 11>>, T3 \o <<9>>, T1 \o <<5, 6>>,
     T1 \o <<5, 6, 7>>, T1 \o T2 \o <<9>>}

Inputs == Aligned \cup Misaligned

\* Buffers a caller hands to Sum, besides the one the last Sum returned.
SumBufs == {<<>>, <<170, 187>>}

\* The words 0, 1 and 2^32 - 1.
W0 == <<0, 0, 0, 0>>
W1 == <<1, 0, 0, 0>>
WF == <<255, 255, 255, 255>>

RECURSIVE Chunks(_, _)
Chunks(words, n) ==
    IF n = 0 THEN {<<>>}
    ELSE LET shorter == Chunks(words, n - 1)
         IN  shorter \cup {c \o w : c \in shorter, w \in words}

PairInputs == Chunks({W0, WF}, MaxChunk)

\* The long workload: one word repeated.
Rep(w, k) == [i \in 1..(k * Len(w)) |-> w[((i - 1) % Len(w)) + 1]]

LongInputs == {Rep(w, k) : w \in {WF, T1, W1}, k \in {LongWords, LongWords + 1}}

\* ------------------------------------------------------------------------
\* State
\* ------------------------------------------------------------------------

VARIABLES
    dig,      \* dig[a]: the digest accumulator a points to
    hist,     \* hist[a]: the bytes Write has taken since a's last Reset (or New)
    fresh,    \* fresh[a]: a has not been Reset since New
    ret,      \* the last call: its method, receiver, argument and outcome
    crashed   \* a panic went unrecovered: the program is gone

vars == <<dig, hist, fresh, ret, crashed>>

Call(op, a, arg, panicked, val) ==
    [op |-> op, acc |-> a, arg |-> arg, panicked |-> panicked, val |-> val]

Init ==
    /\ dig = [a \in Acc |-> New]
    /\ hist = [a \in Acc |-> <<>>]
    /\ fresh = [a \in Acc |-> TRUE]
    /\ ret = Call("New", 0, <<>>, FALSE, <<>>)
    /\ crashed = FALSE

\* d.Reset()
Reset(a) ==
    /\ ~crashed
    /\ dig' = [dig EXCEPT ![a] = ResetDigest(dig[a])]
    /\ hist' = [hist EXCEPT ![a] = <<>>]
    /\ fresh' = [fresh EXCEPT ![a] = FALSE]
    /\ ret' = Call("Reset", a, <<>>, FALSE, <<>>)
    /\ UNCHANGED crashed

\* d.Write(p), for an accumulator that takes at most cap bytes between two
\* Resets.  A panic leaves the caller to recover it or not.
Write(a, p, cap) ==
    /\ ~crashed
    /\ Len(p) % BlockSize = 0 => Len(hist[a]) + Len(p) <= cap
    /\ LET r == WriteDigest(dig[a], p)
       IN  /\ dig' = [dig EXCEPT ![a] = r.d]
           /\ IF r.panicked
              THEN /\ ret' = Call("Write", a, p, TRUE, <<>>)
                   /\ crashed' \in BOOLEAN
                   /\ UNCHANGED hist
              ELSE /\ ret' = Call("Write", a, p, FALSE, <<r.n, r.err>>)
                   /\ hist' = [hist EXCEPT ![a] = @ \o p]
                   /\ UNCHANGED crashed
    /\ UNCHANGED fresh

\* Variant of Sum: the digest is cleared once it has been read.
SumThenReset(a, in) ==
    /\ ~crashed
    /\ Len(in) <= MaxPrior * Size + 2
    /\ ret' = Call("Sum", a, in, FALSE, SumDigest(dig[a], in))
    /\ dig' = [dig EXCEPT ![a] = ResetDigest(dig[a])]
    /\ UNCHANGED <<hist, fresh, crashed>>

\* d.Sum(in)
Sum(a, in) ==
    /\ ~crashed
    /\ Len(in) <= MaxPrior * Size + 2
    /\ ret' = Call("Sum", a, in, FALSE, SumDigest(dig[a], in))
    /\ UNCHANGED <<dig, hist, fresh, crashed>>

\* d.Sum64x4()
Sum64x4(a) ==
    /\ ~crashed
    /\ ret' = Call("Sum64x4", a, <<>>, FALSE, Sum64x4Digest(dig[a]))
    /\ UNCHANGED <<dig, hist, fresh, crashed>>

\* d.Size()
SizeCall(a) ==
    /\ ~crashed
    /\ ret' = Call("Size", a, <<>>, FALSE, Size)
    /\ UNCHANGED <<dig, hist, fresh, crashed>>

\* d.BlockSize()
BlockSizeCall(a) ==
    /\ ~crashed
    /\ ret' = Call("BlockSize", a, <<>>, FALSE, BlockSize)
    /\ UNCHANGED <<dig, hist, fresh, crashed>>

\* The buffers a caller may hand to Sum in the current state.
SumArgs == SumBufs \cup (IF ret.op = "Sum" THEN {ret.val} ELSE {})

\* One caller, one accumulator, every method, the tests' inputs and
\* misaligned ones.
Next ==
    \/ Reset(1)
    \/ \E p \in Inputs : Write(1, p, MaxHist * BlockSize)
    \/ \E in \in SumArgs : Sum(1, in)
    \/ Sum64x4(1)
    \/ SizeCall(1)
    \/ BlockSizeCall(1)

Spec == Init /\ [][Next]_vars

\* Two accumulators fed word streams over {0, 2^32 - 1} in chunks.
NextPair ==
    \E a \in Acc :
        \/ \E p \in PairInputs : Write(a, p, MaxHist * BlockSize)
        \/ Sum(a, <<>>)
        \/ Sum64x4(a)

SpecPair == Init /\ [][NextPair]_vars

\* One accumulator fed long runs of one word.
NextLong ==
    \/ Reset(1)
    \/ \E p \in LongInputs : Write(1, p, MaxLongHist * BlockSize)
    \/ Sum64x4(1)

SpecLong == Init /\ [][NextLong]_vars

\* ------------------------------------------------------------------------
\* Reference definitions used by the properties
\* ------------------------------------------------------------------------

\* The k-th 4-byte word of h (k from 1), read least significant byte first,
\* as a 64-bit value.
WordLE(h, k) ==
    <<h[4 * k - 3] + 256 * h[4 * k - 2], h[4 * k - 1] + 256 * h[4 * k], 0, 0>>

\* a := a + w; b := b + a; c := c + b; d := d + c on the state s.
Cascade(s, w) ==
    LET a == Add64(s[1], w) IN
    LET b == Add64(s[2], a) IN
    LET c == Add64(s[3], b) IN
    LET d == Add64(s[4], c) IN <<a, b, c, d>>

\* The recurrence from (0,0,0,0) over the first k words of h.
RECURSIVE Recurrence(_, _)
Recurrence(h, k) ==
    IF k = 0 THEN <<Zero64, Zero64, Zero64, Zero64>>
    ELSE Cascade(Recurrence(h, k - 1), WordLE(h, k))

\* A value below 2^32 from its upper and lower 16 bits.
Val32(hi, lo) == <<lo, hi, 0, 0>>

\* TestChecksummer1's exp1 and TestChecksummer2's exp1, exp2 and expSum.
Exp1T1 == [k \in 1..4 |-> Val32(1027, 513)]
Exp1T2 ==
    <<Val32(3082, 2054), Val32(4109, 2567), Val32(5136, 3080), Val32(6163, 3593)>>
Exp2T2 ==
    <<Val32(5136, 3080), Val32(9245, 5647), Val32(14381, 8727), Val32(20544, 12320)>>
ExpSum ==
    <<8, 12, 16, 20, 0, 0, 0, 0, 15, 22, 29, 36, 0, 0, 0, 0,
      23, 34, 45, 56, 0, 0, 0, 0, 32, 48, 64, 80, 0, 0, 0, 0>>

\* ------------------------------------------------------------------------
\* Properties
\* ------------------------------------------------------------------------

\* C1: whatever Reset, Write, Sum and Sum64x4 calls came before, every
\* accumulator holds, and Sum64x4 returns, the recurrence a += w; b += a;
\* c += b; d += c from (0,0,0,0) over the little-endian words written since
\* the last Reset; one word of value V on its own gives (V,V,V,V).
Recurrence_C1 ==
    /\ \A a \in Acc :
          /\ dig[a] = Recurrence(hist[a], Len(hist[a]) \div 4)
          /\ Len(hist[a]) = 4 => dig[a] = [k \in 1..4 |-> WordLE(hist[a], 1)]
    /\ ret.op = "Sum64x4" =>
          ret.val = Recurrence(hist[ret.acc], Len(hist[ret.acc]) \div 4)

\* After a Reset, TestChecksummer2's 12 bytes have been written and Sum64x4
\* has returned the test's exp2.
Recurrence_C1_Witness ==
    /\ ret.op = "Sum64x4"
    /\ ~fresh[1]
    /\ hist[1] = T1 \o T2 \o T3
    /\ ret.val = Exp2T2

\* C3: a Write panics exactly when its input's length is no multiple of 4;
\* otherwise it returns the input's length and a nil error.
WriteError_C3 ==
    ret.op = "Write" =>
        /\ ret.panicked <=> (Len(ret.arg) % 4 # 0)
        /\ ~ret.panicked => ret.val = <<Len(ret.arg), "nil">>

\* A 9-byte Write has panicked and taken the program down.
WriteError_C3_Witness ==
    /\ ret.op = "Write"
    /\ Len(ret.arg) = 9
    /\ ret.panicked
    /\ crashed

\* C4: a Write that panics leaves every digest as it was.
NoPartialUpdate_C4 ==
    [][(ret'.op = "Write" /\ ret'.panicked) => dig' = dig]_vars

\* A Write of 7 bytes, one whole word among them, has panicked on an
\* accumulator that holds TestChecksummer2's exp1.
NoPartialUpdate_C4_Witness ==
    /\ ret.op = "Write"
    /\ ret.panicked
    /\ Len(ret.arg) = 7
    /\ dig[1] = Exp1T2

\* C5: Sum(buf) is buf followed by 32 bytes: the words a, b, c, d in that
\* order, eight bytes each, least significant byte first.
SumLayout_C5 ==
    ret.op = "Sum" =>
        LET in == ret.arg
            out == ret.val
            d == dig[ret.acc]
        IN  /\ Len(out) = Len(in) + Size
            /\ SubSeq(out, 1, Len(in)) = in
            /\ \A j \in 0..3, m \in 0..3 :
                  LET lo == out[Len(in) + 8 * j + 2 * m + 1]
                      hi == out[Len(in) + 8 * j + 2 * m + 2]
                  IN  /\ lo \in 0..255
                      /\ hi \in 0..255
                      /\ lo + 256 * hi = d[j + 1][m + 1]

\* Sum on a two-byte buffer has returned those two bytes and
\* TestChecksummer2's expSum.
SumLayout_C5_Witness ==
    /\ ret.op = "Sum"
    /\ ret.arg = <<170, 187>>
    /\ ret.val = <<170, 187>> \o ExpSum

\* C6: Sum, Sum64x4, Size and BlockSize leave every digest as it was, and a
\* Sum on the buffer the Sum before it returned, on the same accumulator,
\* returns that buffer with the same 32 bytes appended once more.
ReadOnly_C6 ==
    [][ /\ ret'.op \in {"Sum", "Sum64x4", "Size", "BlockSize"} => dig' = dig
        /\ (ret.op = "Sum" /\ ret'.op = "Sum" /\ ret'.acc = ret.acc
                /\ ret'.arg = ret.val)
             => ret'.val =
                  ret.val \o SubSeq(ret.val, Len(ret.arg) + 1, Len(ret.val))
      ]_vars

\* The second of two Sums in a row has returned TestChecksummer2's expSum
\* twice over.
ReadOnly_C6_Witness ==
    /\ ret.op = "Sum"
    /\ ret.arg = ExpSum
    /\ ret.val = ExpSum \o ExpSum

\* C7: Reset leaves (0,0,0,0), the state New gives; a Sum64x4 right after it
\* returns (0,0,0,0); a second Reset changes nothing; and an accumulator
\* that has been Reset holds what a new one holds after the same bytes.
Reset_C7 ==
    [][ /\ ret'.op = "Reset" => dig'[ret'.acc] = New
        /\ (ret.op = "Reset" /\ ret'.op = "Sum64x4" /\ ret'.acc = ret.acc)
             => ret'.val = <<Zero64, Zero64, Zero64, Zero64>>
        /\ (ret.op = "Reset" /\ ret'.op = "Reset" /\ ret'.acc = ret.acc)
             => dig' = dig
        /\ \A a \in Acc :
             ~fresh'[a] => dig'[a] = updateLoop(New, hist'[a], 0, Len(hist'[a]))
      ]_vars

\* An accumulator that held TestChecksummer2's exp2 was Reset, and a Sum64x4
\* after a Write of TestChecksummer1's input returns the test's exp1.
Reset_C7_Witness ==
    /\ ~fresh[1]
    /\ hist[1] = T1
    /\ ret.op = "Sum64x4"
    /\ ret.val = Exp1T1

\* C2: an accumulator holds, and its Sum(nil) returns, what one Write of all
\* its bytes gives an accumulator new from New, however the bytes were split
\* over Writes; two accumulators given the same bytes agree.
Chunking_C2 ==
    /\ \A a \in Acc :
          LET one == WriteDigest(New, hist[a])
          IN  /\ ~one.panicked
              /\ dig[a] = one.d
              /\ (ret.op = "Sum" /\ ret.acc = a) => ret.val = SumDigest(one.d, <<>>)
    /\ \A a, b \in Acc :
          hist[a] = hist[b] =>
              /\ dig[a] = dig[b]
              /\ SumDigest(dig[a], <<>>) = SumDigest(dig[b], <<>>)

\* Both accumulators got the words 2^32 - 1, 2^32 - 1, 0, accumulator 2 in
\* more than one Write, the last of them of the one word 0; d is
\* (1 + 4 + 9) * (2^32 - 1) = 14 * 2^32 - 14.
Chunking_C2_Witness ==
    /\ hist[1] = WF \o WF \o W0
    /\ hist[2] = hist[1]
    /\ ret.op = "Write"
    /\ ret.acc = 2
    /\ ret.arg = W0
    /\ dig[1][4] = <<LimbBase - 14, LimbBase - 1, 13, 0>>

\* x < y on uint64.
Less64(x, y) ==
    \E m \in 1..4 : x[m] < y[m] /\ \A l \in (m + 1)..4 : x[l] = y[l]

\* h is n words, all 0 but the i-th, which is v.
Impulse(h, n, i, v) ==
    /\ Len(h) = 4 * n
    /\ \A k \in 1..n : SubSeq(h, 4 * k - 3, 4 * k) = (IF k = i THEN v ELSE W0)

\* A small number as a uint64.
Small(x) == <<x, 0, 0, 0>>

\* C9 as stated: of two streams of n words that are 0 but for one word
\* 2^32 - 1, the one with that word at the later place ends with the larger
\* b, c and d.
LaterWeighsMore_C9 ==
    \A x, y \in Acc, n \in 2..(MaxHist + 1), i, j \in 1..(MaxHist + 1) :
        (i < j /\ j <= n /\ Impulse(hist[x], n, i, WF) /\ Impulse(hist[y], n, j, WF))
            => \A k \in 2..4 : Less64(dig[x][k], dig[y][k])

\* q * (2^32 - 1) for a small q: what q added to it makes q * 2^32.
Times(q) == <<LimbBase - q, LimbBase - 1, q - 1, 0>>

\* C9 as amended: the one with that word at the earlier place ends with the
\* larger b, c and d, and the same a; the word at place i of n enters
\* a, b, c, d with the multipliers 1, m, m(m+1)/2, m(m+1)(m+2)/6, where
\* m = n - i + 1.
EarlierWeighsMore_C9 ==
    /\ \A x, y \in Acc, n \in 2..(MaxHist + 1), i, j \in 1..(MaxHist + 1) :
          (i < j /\ j <= n /\ Impulse(hist[x], n, i, WF)
                /\ Impulse(hist[y], n, j, WF))
              => /\ dig[x][1] = dig[y][1]
                 /\ \A k \in 2..4 : Less64(dig[y][k], dig[x][k])
    /\ \A x \in Acc, n \in 1..(MaxHist + 1), i \in 1..(MaxHist + 1) :
          (i <= n /\ Impulse(hist[x], n, i, WF)) =>
              LET m == n - i + 1
              IN  /\ dig[x] = <<Times(1), Times(m), Times((m * (m + 1)) \div 2),
                                Times((m * (m + 1) * (m + 2)) \div 6)>>
                  /\ Add64(dig[x][4], Small((m * (m + 1) * (m + 2)) \div 6))
                       = <<0, 0, (m * (m + 1) * (m + 2)) \div 6, 0>>

\* Accumulator 1 got 2^32 - 1, 0, 0 and accumulator 2 got 0, 0, 2^32 - 1:
\* d is 10 * (2^32 - 1) in the one and 2^32 - 1 in the other.
EarlierWeighsMore_C9_Witness ==
    /\ Impulse(hist[1], 3, 1, WF)
    /\ Impulse(hist[2], 3, 3, WF)
    /\ dig[1][4] = <<LimbBase - 10, LimbBase - 1, 9, 0>>
    /\ dig[2][4] = <<LimbBase - 1, LimbBase - 1, 0, 0>>

\* h and g are n words and differ by the exchange of words k and k + 1,
\* which are not the same word.
Swapped(h, g, n, k) ==
    /\ Len(h) = 4 * n
    /\ Len(g) = 4 * n
    /\ WordLE(h, k) # WordLE(h, k + 1)
    /\ WordLE(g, k) = WordLE(h, k + 1)
    /\ WordLE(g, k + 1) = WordLE(h, k)
    /\ \A l \in 1..n : l \notin {k, k + 1} => WordLE(g, l) = WordLE(h, l)

\* C10: two accumulators whose streams differ by the exchange of two
\* adjacent, different words hold different digests, whatever came before
\* and after the two words: the same a, and b's that differ by the
\* difference of the two words.
SwapChangesDigest_C10 ==
    \A x, y \in Acc, n \in 2..(MaxHist + 1), k \in 1..MaxHist :
        (k < n /\ Swapped(hist[x], hist[y], n, k)) =>
            /\ dig[x] # dig[y]
            /\ dig[x][1] = dig[y][1]
            /\ dig[x][2] # dig[y][2]
            /\ Add64(dig[x][2], WordLE(hist[x], k + 1))
                 = Add64(dig[y][2], WordLE(hist[x], k))

\* Accumulator 1 got 0, 2^32 - 1, 2^32 - 1 and accumulator 2 got
\* 2^32 - 1, 0, 2^32 - 1: the first two words exchanged, and a word written
\* after them.
SwapChangesDigest_C10_Witness ==
    /\ hist[1] = W0 \o WF \o WF
    /\ hist[2] = WF \o W0 \o WF
    /\ dig[1] # dig[2]

\* A sum of uint64 values in 96 bits, six limbs, where it cannot wrap.
Wide(x) == <<x[1], x[2], x[3], x[4], 0, 0>>

AddWide(x, y) ==
    LET s1 == x[1] + y[1]
        s2 == x[2] + y[2] + (s1 \div LimbBase)
        s3 == x[3] + y[3] + (s2 \div LimbBase)
        s4 == x[4] + y[4] + (s3 \div LimbBase)
        s5 == x[5] + y[5] + (s4 \div LimbBase)
        s6 == x[6] + y[6] + (s5 \div LimbBase)
    IN  <<s1 % LimbBase, s2 % LimbBase, s3 % LimbBase, s4 % LimbBase,
          s5 % LimbBase, s6>>

CascadeWide(s, w) ==
    LET a == AddWide(s[1], w) IN
    LET b == AddWide(s[2], a) IN
    LET c == AddWide(s[3], b) IN
    LET d == AddWide(s[4], c) IN <<a, b, c, d>>

\* The recurrence without wraparound over the words lo..hi of h, from s
\* (by halves, the first done before the second starts, as in updateLoop).
RECURSIVE ExactSums(_, _, _, _)
ExactSums(s, h, lo, hi) ==
    IF lo > hi \/ s # s THEN s
    ELSE IF lo = hi THEN CascadeWide(s, Wide(WordLE(h, lo)))
    ELSE ExactSums(ExactSums(s, h, lo, (lo + hi) \div 2), h,
                   ((lo + hi) \div 2) + 1, hi)

Exact(h) ==
    ExactSums([k \in 1..4 |-> <<0, 0, 0, 0, 0, 0>>], h, 1, Len(h) \div 4)

\* C8: each of a, b, c, d is the exact sum of the recurrence, the words
\* taken as 64-bit values, reduced modulo 2^64: a value in 0..2^64 - 1; and a
\* Write of whole words returns normally whatever the sums have grown to.
Wraparound_C8 ==
    /\ LET exact == Exact(hist[1])
       IN  \A k \in 1..4 :
              /\ exact[k][6] < LimbBase
              /\ dig[1][k] = SubSeq(exact[k], 1, 4)
              /\ \A m \in 1..4 : dig[1][k][m] \in 0..(LimbBase - 1)
    /\ (ret.op = "Write" /\ Len(ret.arg) % 4 = 0) =>
          /\ ~ret.panicked
          /\ ret.val = <<Len(ret.arg), "nil">>

\* A Write has returned with a at 2^32 or more and the exact d at 2^64 or
\* more.
Wraparound_C8_Witness ==
    /\ ret.op = "Write"
    /\ ~ret.panicked
    /\ dig[1][1][3] > 0
    /\ Exact(hist[1])[4][5] > 0

=============================================================================
